---- MODULE Spec2Model ----
(***************************************************************************)
(* A model of src/app.py, the Fund Raiser leaderboard page.                *)
(*                                                                         *)
(* Strings are sequences of one-character strings, so that strip(),        *)
(* lower(), str() and the code-point order of Python strings are computed  *)
(* and not assumed.  A DataFrame is a record                               *)
(*     [exc, hdr, col, n]                                                  *)
(* hdr the column labels in order (labels may repeat after a rename), col  *)
(* the columns in the same order, each a sequence of n cells; exc is ""    *)
(* for a table and the exception's name when the call that should have     *)
(* produced the table raised instead.  A cell is [k, n, s]: k = "num" a    *)
(* number n, k = "str" a Python str s, k = "nan" a missing value.  Numbers *)
(* are integers: the page formats every score with %d.                     *)
(***************************************************************************)
EXTENDS Integers, Sequences, FiniteSets, TLC

VARIABLES
    sheet,       \* the table the published spreadsheet holds now
    cache,       \* st.cache_data's entry for load_from_gsheet(CSV_URL)
    df,          \* the table the page shows
    load_ok,     \* load_ok of the last pass
    do_refresh,  \* whether the last pass came from the "Refresh now" button
    fetched,     \* whether the last pass ran pd.read_csv (a network fetch)
    error,       \* the exception st.error showed in the last pass, "" if none
    leader,      \* the "Leading Team" metric
    teams,       \* the "Total Teams" metric
    inp,         \* the argument of the helper applied last
    out,         \* what that helper returned
    pc           \* the position inside load_from_gsheet / the page script

vars == <<sheet, cache, df, load_ok, do_refresh, fetched, error, leader, teams,
          inp, out, pc>>

---------------------------------------------------------------------------
(* Bounds of the model. *)

MaxRows == 3
MaxCols == 2
MaxRawRows == 2

---------------------------------------------------------------------------
(* Strings *)

UPPER == <<"A","B","C","D","E","F","G","H","I","J","K","L","M",
           "N","O","P","Q","R","S","T","U","V","W","X","Y","Z">>
LOWER == <<"a","b","c","d","e","f","g","h","i","j","k","l","m",
           "n","o","p","q","r","s","t","u","v","w","x","y","z">>
DIGITS == <<"0","1","2","3","4","5","6","7","8","9">>

\* The characters of the model in code-point order.
ASCII == <<" ", "-", ".">> \o DIGITS \o UPPER \o <<"_">> \o LOWER

Ord(c) == CHOOSE i \in 1..Len(ASCII) : ASCII[i] = c

LowerChar(c) ==
    IF \E i \in 1..26 : UPPER[i] = c
    THEN LOWER[CHOOSE i \in 1..26 : UPPER[i] = c]
    ELSE c

\* str.lower()
StrLower(s) == [i \in 1..Len(s) |-> LowerChar(s[i])]

RECURSIVE LStrip(_)
LStrip(s) == IF s # <<>> /\ Head(s) = " " THEN LStrip(Tail(s)) ELSE s

RECURSIVE RStrip(_)
RStrip(s) ==
    IF s # <<>> /\ s[Len(s)] = " " THEN RStrip(SubSeq(s, 1, Len(s) - 1)) ELSE s

\* str.strip()
StrStrip(s) == RStrip(LStrip(s))

\* a < b for Python strings: by code point, a proper prefix first.
RECURSIVE StrLess(_, _)
StrLess(a, b) ==
    IF b = <<>> THEN FALSE
    ELSE IF a = <<>> THEN TRUE
    ELSE IF Head(a) # Head(b) THEN Ord(Head(a)) < Ord(Head(b))
    ELSE StrLess(Tail(a), Tail(b))

StrLeq(a, b) == a = b \/ StrLess(a, b)

\* str(n) of a non-negative int.
RECURSIVE NatToStr(_)
NatToStr(n) ==
    IF n < 10 THEN <<DIGITS[n + 1]>>
    ELSE NatToStr(n \div 10) \o <<DIGITS[(n % 10) + 1]>>

\* str(n) of an int.
IntToStr(n) == IF n < 0 THEN <<"-">> \o NatToStr(0 - n) ELSE NatToStr(n)

IsDigit(c) == \E i \in 1..10 : DIGITS[i] = c

DigitVal(c) == (CHOOSE i \in 1..10 : DIGITS[i] = c) - 1

RECURSIVE DigitsVal(_)
DigitsVal(s) ==
    IF s = <<>> THEN 0
    ELSE 10 * DigitsVal(SubSeq(s, 1, Len(s) - 1)) + DigitVal(s[Len(s)])

AllDigits(s) == s # <<>> /\ \A i \in 1..Len(s) : IsDigit(s[i])

---------------------------------------------------------------------------
(* Cells *)

Num(n) == [k |-> "num", n |-> n, s |-> <<>>]
Str(s) == [k |-> "str", n |-> 0, s |-> s]
NaN == [k |-> "nan", n |-> 0, s |-> <<>>]

\* pd.to_numeric(cell, errors="coerce") of one cell: a number stays, text that
\* reads as an integer (surrounding blanks and a sign allowed) becomes it,
\* anything else becomes NaN.
ToNumericCell(c) ==
    IF c.k = "num" THEN c
    ELSE IF c.k = "nan" THEN NaN
    ELSE LET t == StrStrip(c.s) IN
         IF AllDigits(t) THEN Num(DigitsVal(t))
         ELSE IF t # <<>> /\ Head(t) = "-" /\ AllDigits(Tail(t))
              THEN Num(0 - DigitsVal(Tail(t)))
         ELSE NaN

\* .fillna(0) of one cell.
FillNa0(c) == IF c.k = "nan" THEN Num(0) ELSE c

\* pd.to_numeric(column, errors="coerce").fillna(0)
ToNumericFill(column) == [i \in 1..Len(column) |-> FillNa0(ToNumericCell(column[i]))]

\* The dtype pandas holds a column in: object when it has a str, float64 when
\* it has numbers and a missing value, int64 otherwise.
DType(column) ==
    IF \E i \in 1..Len(column) : column[i].k = "str" THEN "object"
    ELSE IF \E i \in 1..Len(column) : column[i].k = "nan" THEN "float64"
    ELSE "int64"

\* column.astype(str): str(x) of every element; a float64 prints with ".0",
\* a missing value prints as "nan".
AsTypeStr(column) ==
    [i \in 1..Len(column) |->
        LET c == column[i] IN
        IF c.k = "str" THEN c
        ELSE IF c.k = "nan" THEN Str(<<"n","a","n">>)
        ELSE IF DType(column) = "float64" THEN Str(IntToStr(c.n) \o <<".","0">>)
        ELSE Str(IntToStr(c.n))]

---------------------------------------------------------------------------
(* Constants of src/app.py *)

TEAM_NAME == <<"T","e","a","m","_","N","a","m","e">>
GAME_1 == <<"G","a","m","e","_","1">>
GAME_2 == <<"G","a","m","e","_","2">>
GAME_3 == <<"G","a","m","e","_","3">>
GAME_4 == <<"G","a","m","e","_","4">>
COLUMN_6 == <<"C","o","l","u","m","n"," ","6">>
TOTAL_POINTS == <<"T","o","t","a","l","_","p","o","i","n","t","s">>
RANK == <<"R","a","n","k">>
TBD == <<"T","B","D">>

REQUIRED_COLUMNS == <<TEAM_NAME, GAME_1, GAME_2, GAME_3, GAME_4, COLUMN_6, TOTAL_POINTS>>

GAME_COLUMNS == <<GAME_1, GAME_2, GAME_3, GAME_4>>

\* GAME_COLUMNS + ["Column 6", "Total_points"]
NUMERIC_COLUMNS == GAME_COLUMNS \o <<COLUMN_6, TOTAL_POINTS>>

\* ordered_cols of _compute_totals_and_rank
ORDERED_COLS == <<RANK, TEAM_NAME>> \o GAME_COLUMNS \o <<COLUMN_6, TOTAL_POINTS>>

\* The cache's ttl and the time between two passes of the model, in seconds.
TTL == 3600
TickSeconds == 1800

\* mapping_candidates with a slip in its last item: "total_points" sent to
\* the bonus column.
mapping_slip == {
    <<<<"t","e","a","m"," ","n","a","m","e">>, TEAM_NAME>>,
    <<<<"t","e","a","m","_","n","a","m","e">>, TEAM_NAME>>,
    <<<<"t","e","a","m">>, TEAM_NAME>>,
    <<<<"g","a","m","e","1">>, GAME_1>>,
    <<<<"g","a","m","e"," ","1">>, GAME_1>>,
    <<<<"g","a","m","e","2">>, GAME_2>>,
    <<<<"g","a","m","e"," ","2">>, GAME_2>>,
    <<<<"g","a","m","e","3">>, GAME_3>>,
    <<<<"g","a","m","e"," ","3">>, GAME_3>>,
    <<<<"g","a","m","e","4">>, GAME_4>>,
    <<<<"g","a","m","e"," ","4">>, GAME_4>>,
    <<<<"c","o","l","u","m","n","6">>, COLUMN_6>>,
    <<<<"c","o","l","u","m","n","_","6">>, COLUMN_6>>,
    <<<<"b","o","n","u","s">>, COLUMN_6>>,
    <<<<"t","o","t","a","l">>, TOTAL_POINTS>>,
    <<<<"t","o","t","a","l"," ","p","o","i","n","t","s">>, TOTAL_POINTS>>,
    <<<<"t","o","t","a","l","_","p","o","i","n","t","s">>, COLUMN_6>> }

\* mapping_candidates, as the set of its <<key, value>> items.
mapping_candidates == {
    <<<<"t","e","a","m"," ","n","a","m","e">>, TEAM_NAME>>,
    <<<<"t","e","a","m","_","n","a","m","e">>, TEAM_NAME>>,
    <<<<"t","e","a","m">>, TEAM_NAME>>,
    <<<<"g","a","m","e","1">>, GAME_1>>,
    <<<<"g","a","m","e"," ","1">>, GAME_1>>,
    <<<<"g","a","m","e","2">>, GAME_2>>,
    <<<<"g","a","m","e"," ","2">>, GAME_2>>,
    <<<<"g","a","m","e","3">>, GAME_3>>,
    <<<<"g","a","m","e"," ","3">>, GAME_3>>,
    <<<<"g","a","m","e","4">>, GAME_4>>,
    <<<<"g","a","m","e"," ","4">>, GAME_4>>,
    <<<<"c","o","l","u","m","n","6">>, COLUMN_6>>,
    <<<<"c","o","l","u","m","n","_","6">>, COLUMN_6>>,
    <<<<"b","o","n","u","s">>, COLUMN_6>>,
    <<<<"t","o","t","a","l">>, TOTAL_POINTS>>,
    <<<<"t","o","t","a","l"," ","p","o","i","n","t","s">>, TOTAL_POINTS>>,
    <<<<"t","o","t","a","l","_","p","o","i","n","t","s">>, TOTAL_POINTS>> }

\* mapping_candidates.get(key, default)
MappingGet(key, default) ==
    IF \E e \in mapping_candidates : e[1] = key
    THEN (CHOOSE e \in mapping_candidates : e[1] = key)[2]
    ELSE default

---------------------------------------------------------------------------
(* DataFrames *)

Frame(hdr, col, n) == [exc |-> "", hdr |-> hdr, col |-> col, n |-> n]

\* What stands for the result of a call that raised.
Raised(exc) == [exc |-> exc, hdr |-> <<>>, col |-> <<>>, n |-> 0]

\* The positions of label c among the columns.
Locs(t, c) == {i \in 1..Len(t.hdr) : t.hdr[i] = c}

\* c in df.columns
HasColumn(t, c) == Locs(t, c) # {}

\* df[c] of a label that names one column.
Column(t, c) == t.col[CHOOSE i \in Locs(t, c) : TRUE]

\* df[c] = column, of a label that names at most one column: replaced in
\* place, or appended as the last column.
SetColumn(t, c, column) ==
    IF HasColumn(t, c)
    THEN [t EXCEPT !.col = [i \in 1..Len(t.col) |->
                               IF t.hdr[i] = c THEN column ELSE t.col[i]]]
    ELSE [t EXCEPT !.hdr = Append(t.hdr, c), !.col = Append(t.col, column)]

\* The scalar x as a column of n cells.
Broadcast(x, n) == [i \in 1..n |-> x]

\* A sequence as the set of its elements.
Range(s) == {s[i] : i \in 1..Len(s)}

---------------------------------------------------------------------------
(* Helpers of src/app.py *)

\* Every label is replaced by the canonical name its stripped, lower-cased
\* form is an alias of, and kept when it is none.  rename() only relabels:
\* two labels that map to one name leave two columns of that name.
_normalize_columns(t) ==
    [t EXCEPT !.hdr = [i \in 1..Len(t.hdr) |->
                          MappingGet(StrLower(StrStrip(t.hdr[i])), t.hdr[i])]]

\* for col in REQUIRED_COLUMNS: if col not in df.columns: df[col] = 0
RECURSIVE AddMissing(_, _)
AddMissing(t, cols) ==
    IF cols = <<>> THEN t
    ELSE AddMissing(IF HasColumn(t, Head(cols)) THEN t
                    ELSE SetColumn(t, Head(cols), Broadcast(Num(0), t.n)),
                    Tail(cols))

\* for col in ...: df[col] = pd.to_numeric(df[col], errors="coerce").fillna(0)
\* df[col] of a repeated label is a DataFrame, which to_numeric refuses with
\* a TypeError.
RECURSIVE CoerceNumeric(_, _)
CoerceNumeric(t, cols) ==
    IF cols = <<>> THEN t
    ELSE IF Cardinality(Locs(t, Head(cols))) > 1 THEN Raised("TypeError")
    ELSE CoerceNumeric(SetColumn(t, Head(cols), ToNumericFill(Column(t, Head(cols)))),
                       Tail(cols))

\* df["Team_Name"] = df["Team_Name"].astype(str); of a repeated label both
\* sides are frames of as many columns, and every one of them is converted.
NamesAsStr(t) ==
    IF t.exc # "" THEN t
    ELSE [t EXCEPT !.col = [i \in 1..Len(t.col) |->
                               IF t.hdr[i] = TEAM_NAME THEN AsTypeStr(t.col[i])
                               ELSE t.col[i]]]

_ensure_required_columns(t) ==
    NamesAsStr(CoerceNumeric(AddMissing(t, REQUIRED_COLUMNS), NUMERIC_COLUMNS))

---------------------------------------------------------------------------
(* _compute_totals_and_rank *)

\* The numbers of a numeric column, the strings of the name column.
Numbers(t, c) == [i \in 1..t.n |-> Column(t, c)[i].n]
Strings(t, c) == [i \in 1..t.n |-> Column(t, c)[i].s]

\* (df["Total_points"].fillna(0) == 0).all()
TotalsLookEmpty(t) == \A i \in 1..t.n : Numbers(t, TOTAL_POINTS)[i] = 0

\* df[GAME_COLUMNS].sum(axis=1) + df["Column 6"], row i
DerivedTotal(t, i) ==
    Numbers(t, GAME_1)[i] + Numbers(t, GAME_2)[i] + Numbers(t, GAME_3)[i]
        + Numbers(t, GAME_4)[i] + Numbers(t, COLUMN_6)[i]

\* A per-row fallback in place of the all-or-nothing test: every row whose own
\* total is 0 gets the derived one.
WithTotalsPerRow(t) ==
    SetColumn(t, TOTAL_POINTS,
              [i \in 1..t.n |-> IF Numbers(t, TOTAL_POINTS)[i] = 0
                                THEN Num(DerivedTotal(t, i))
                                ELSE Num(Numbers(t, TOTAL_POINTS)[i])])

\* if (...).all(): df["Total_points"] = ...
WithTotals(t) ==
    IF TotalsLookEmpty(t)
    THEN SetColumn(t, TOTAL_POINTS, [i \in 1..t.n |-> Num(DerivedTotal(t, i))])
    ELSE t

Max(S) == CHOOSE x \in S : \A y \in S : y <= x

\* The distinct values of S, the largest first.
RECURSIVE Descending(_)
Descending(S) == IF S = {} THEN <<>> ELSE <<Max(S)>> \o Descending(S \ {Max(S)})

\* rank(method="min", ascending=False): one more than the rows ahead.
MinRank(totals) ==
    [i \in 1..Len(totals) |->
        1 + Cardinality({j \in 1..Len(totals) : totals[j] > totals[i]})]

\* rank(method="dense", ascending=False).astype(int): the values are walked in
\* descending order and the rank steps by one at every change of value.
DenseRank(totals) ==
    LET order == Descending(Range(totals)) IN
    [i \in 1..Len(totals) |-> CHOOSE r \in 1..Len(order) : order[r] = totals[i]]

\* The order of sort_values("Total_points", ascending=False): the name is no key.
BeforeByTotal(totals, names, i, j) == totals[i] > totals[j]

\* Whether row i goes before row j under
\* sort_values(["Total_points", "Team_Name"], ascending=[False, True]).
Before(totals, names, i, j) ==
    \/ totals[i] > totals[j]
    \/ totals[i] = totals[j] /\ StrLess(names[i], names[j])

\* idx with i put after the last element it does not go before.
RECURSIVE InsertSorted(_, _, _, _)
InsertSorted(totals, names, idx, i) ==
    IF idx # <<>> /\ Before(totals, names, i, idx[Len(idx)])
    THEN Append(InsertSorted(totals, names, SubSeq(idx, 1, Len(idx) - 1), i),
                idx[Len(idx)])
    ELSE Append(idx, i)

\* The indexer of the sort: rows 1..k in their sorted order (rows equal in
\* both keys keep their order, as the lexsort of several keys does).
RECURSIVE SortIndexer(_, _, _)
SortIndexer(totals, names, k) ==
    IF k = 0 THEN <<>>
    ELSE InsertSorted(totals, names, SortIndexer(totals, names, k - 1), k)

\* The sorted frame returned whole, without df[ordered_cols].
ProjectAll(t, idx) ==
    Frame(t.hdr,
          [j \in 1..Len(t.hdr) |-> [i \in 1..t.n |-> t.col[j][idx[i]]]],
          t.n)

\* df[ordered_cols] of the sorted frame: the columns taken by label, in the
\* fixed order, whatever else the frame holds.
Project(t, idx) ==
    Frame(ORDERED_COLS,
          [j \in 1..Len(ORDERED_COLS) |->
              [i \in 1..t.n |-> Column(t, ORDERED_COLS[j])[idx[i]]]],
          t.n)

\* A repeated "Team_Name" label makes sort_values raise ValueError (the label
\* is not unique).
_compute_totals_and_rank(t) ==
    IF Cardinality(Locs(t, TEAM_NAME)) > 1 THEN Raised("ValueError")
    ELSE LET t1 == WithTotals(t)
             totals == Numbers(t1, TOTAL_POINTS)
             ranks == DenseRank(totals)
             t2 == SetColumn(t1, RANK, [i \in 1..t1.n |-> Num(ranks[i])])
         IN  Project(t2, SortIndexer(totals, Strings(t1, TEAM_NAME), t1.n))

---------------------------------------------------------------------------
(* Data loaders *)

load_base_data ==
    Frame(REQUIRED_COLUMNS,
          <<[i \in 1..8 |-> Str(<<"T","e","a","m","_">> \o IntToStr(i))]>>
              \o [j \in 1..6 |-> [i \in 1..8 |-> Num(0)]],
          8)

\* f(t), unless the call that should have produced t raised.
EnsureStep(t) == IF t.exc # "" THEN t ELSE _ensure_required_columns(t)
ComputeStep(t) == IF t.exc # "" THEN t ELSE _compute_totals_and_rank(t)

\* load_from_gsheet's body on what pd.read_csv returned.
Process(raw) == ComputeStep(EnsureStep(_normalize_columns(raw)))

\* pd.read_csv(csv_url): the sheet, or an exception when the network is down.
ReadCsv(netUp) == IF netUp THEN sheet ELSE Raised("URLError")

\* The body of load_from_gsheet.
LoadBody(netUp) == IF netUp THEN Process(ReadCsv(netUp)) ELSE ReadCsv(netUp)

---------------------------------------------------------------------------
(* st.cache_data(ttl=60*60) *)

NoEntry == [has |-> FALSE, value |-> Frame(<<>>, <<>>, 0), age |-> 0]

Entry(value) == [has |-> TRUE, value |-> value, age |-> 0]

\* An entry is served while it is younger than the ttl.
CacheHit(c) == c.has /\ c.age < TTL

\* The button pressed without load_from_gsheet.clear().
NotCleared(c, manual) == c

\* load_from_gsheet.clear() when the button was pressed
Cleared(c, manual) == IF manual THEN NoEntry ELSE c

\* The placeholder memoized when the function raised.
StoredEvenIfRaised(res) == Entry(IF res.exc = "" THEN res ELSE load_base_data)

\* What the cache holds after a miss: the value the function returned; when
\* the function raised nothing is stored.
Stored(res) == IF res.exc = "" THEN Entry(res) ELSE NoEntry

\* try: df = load_from_gsheet(CSV_URL) except: df = load_base_data()
Shown(res) == IF res.exc = "" THEN res ELSE load_base_data

---------------------------------------------------------------------------
(* Statistics *)

\* The guard with >= in place of >.
HasLeaderNonNegative(t) ==
    t.n > 0 /\ \E i \in 1..t.n : Numbers(t, TOTAL_POINTS)[i] >= 0

\* df['Total_points'].max() > 0, guarded by len(df)
HasLeader(t) == t.n > 0 /\ \E i \in 1..t.n : Numbers(t, TOTAL_POINTS)[i] > 0

\* df.sort_values('Total_points', ascending=False).iloc[0]['Team_Name']: the
\* sort is the default quicksort, which is not stable, so the first row is
\* any row of the largest total.
Leaders(t) ==
    IF HasLeader(t)
    THEN {Strings(t, TEAM_NAME)[i] : i \in
             {i \in 1..t.n : \A j \in 1..t.n :
                  Numbers(t, TOTAL_POINTS)[j] <= Numbers(t, TOTAL_POINTS)[i]}}
    ELSE {TBD}

---------------------------------------------------------------------------
(* Inputs *)

\* Headers a sheet may carry: aliases in several spellings, canonical names,
\* and a column the schema does not know.  pd.read_csv keeps the headers of
\* one file distinct.
RawHeaders == {
    <<"T","e","a","m"," ","N","a","m","e">>, <<" ","t","e","a","m"," ">>, TEAM_NAME,
    <<"G","a","m","e","1">>, GAME_1, <<"B","o","n","u","s">>, <<"C","o","l","u","m","n","6">>, <<"T","o","t","a","l">>, <<"N","o","t","e","s">> }

\* What a column of a sheet may hold, by the dtype read_csv gives it.
Kinds == {"int64", "float64", "text", "names"}

Pattern(kind) ==
    CASE kind = "int64" -> <<Num(2), Num(0), Num(5), Num(1)>>
      [] kind = "float64" -> <<Num(4), NaN, Num(1), NaN>>
      [] kind = "text" -> <<Str(<<"7">>), Str(<<"x">>), NaN, Str(<<" ","-","3">>)>>
      [] kind = "names" -> <<Str(<<"B","r","a","v","o">>), Str(<<"a","l","p","h","a">>), Str(<<"A","l","p","h","a">>), Str(<<"B","r","a","v","o">>)>>

KindColumn(kind, n) == [i \in 1..n |-> Pattern(kind)[((i - 1) % 4) + 1]]

Injective(h) == \A i, j \in 1..Len(h) : h[i] = h[j] => i = j

HeaderRows(k) == {h \in [1..k -> RawHeaders] : Injective(h)}

\* A sheet of k columns and n rows.
RawTable(h, kinds, n) == Frame(h, [j \in 1..Len(h) |-> KindColumn(kinds[j], n)], n)

\* The rows of a normalized table: a name, the four games and the bonus, and
\* the total the sheet supplied.
RankNames == {<<"A","l","p","h","a">>, <<"B","r","a","v","o">>, <<"a","l","p","h","a">>}
RankScores == {<<0, 0, 0, 0, 0>>, <<10, 20, 5, 0, 5>>}
RankTotals == {-5, 0, 80}

RankRows == RankNames \X RankScores \X RankTotals

NormalizedFrame(rows) ==
    Frame(REQUIRED_COLUMNS,
          <<[i \in 1..Len(rows) |-> Str(rows[i][1])]>>
              \o [j \in 1..5 |-> [i \in 1..Len(rows) |-> Num(rows[i][2][j])]]
              \o <<[i \in 1..Len(rows) |-> Num(rows[i][3])]>>,
          Len(rows))

\* The sheets the page of the model is pointed at.
Sheets == {
    Frame(<<<<"T","e","a","m"," ","N","a","m","e">>, <<"G","a","m","e","1">>, <<"T","o","t","a","l">>>>,
          <<KindColumn("names", 2), KindColumn("int64", 2), Broadcast(Num(80), 2)>>, 2),
    Frame(<<<<" ","t","e","a","m"," ">>, <<"G","a","m","e","1">>, <<"B","o","n","u","s">>>>,
          <<KindColumn("names", 3), KindColumn("int64", 3), KindColumn("text", 3)>>, 3),
    Frame(<<TEAM_NAME>>, <<<<>>>>, 0),
    Frame(<<<<"B","o","n","u","s">>, <<"C","o","l","u","m","n","6">>>>,
          <<KindColumn("int64", 1), KindColumn("float64", 1)>>, 1),
    Frame(<<<<"T","e","a","m"," ","N","a","m","e">>, TEAM_NAME>>,
          <<KindColumn("names", 2), KindColumn("text", 2)>>, 2) }

---------------------------------------------------------------------------
(* The page: one pass of the script per rerun *)

PageIdle ==
    /\ cache = NoEntry
    /\ df = Frame(<<>>, <<>>, 0)
    /\ load_ok = FALSE
    /\ do_refresh = FALSE
    /\ fetched = FALSE
    /\ error = ""
    /\ leader = TBD
    /\ teams = 0

Init ==
    /\ sheet \in Sheets
    /\ PageIdle
    /\ inp = Frame(<<>>, <<>>, 0)
    /\ out = Frame(<<>>, <<>>, 0)
    /\ pc = "page"

\* One run of the script: the button's state, the cache lookup, the load or
\* the fallback, and the statistics.
Pass(manual, netUp) ==
    LET c == Cleared(cache, manual)
        hit == CacheHit(c)
        res == IF hit THEN c.value ELSE LoadBody(netUp)
    IN  /\ pc = "page"
        /\ do_refresh' = manual
        /\ fetched' = ~hit
        /\ cache' = IF hit THEN c ELSE Stored(res)
        /\ df' = Shown(res)
        /\ load_ok' = (res.exc = "")
        /\ error' = res.exc
        /\ leader' \in Leaders(Shown(res))
        /\ teams' = Shown(res).n
        /\ UNCHANGED <<sheet, inp, out, pc>>

\* A rerun by the auto-refresh timer.
AutoPass == \E netUp \in BOOLEAN : Pass(FALSE, netUp)

\* A rerun by the "Refresh now" button.
ManualPass == \E netUp \in BOOLEAN : Pass(TRUE, netUp)

\* Time passes between two reruns: the entry ages, and stops ageing once it
\* has expired.
Advance ==
    /\ pc = "page"
    /\ CacheHit(cache)
    /\ cache' = [cache EXCEPT !.age = IF @ + TickSeconds >= TTL THEN TTL
                                      ELSE @ + TickSeconds]
    /\ UNCHANGED <<sheet, df, load_ok, do_refresh, fetched, error, leader, teams,
                   inp, out, pc>>

\* Somebody edits the spreadsheet.
EditSheet ==
    /\ pc = "page"
    /\ sheet' \in Sheets \ {sheet}
    /\ UNCHANGED <<cache, df, load_ok, do_refresh, fetched, error, leader, teams,
                   inp, out, pc>>

Next == AutoPass \/ ManualPass \/ Advance \/ EditSheet

Spec == Init /\ [][Next]_vars

---------------------------------------------------------------------------
(* The steps of load_from_gsheet, one helper at a time *)

InitLoad ==
    /\ \E k \in 0..MaxCols, n \in 0..MaxRawRows :
          \E h \in HeaderRows(k), kinds \in [1..k -> Kinds] :
              sheet = RawTable(h, kinds, n)
    /\ PageIdle
    /\ inp = sheet
    /\ out = sheet
    /\ pc = "read"

Step(from, result) ==
    /\ pc = from
    /\ inp' = out
    /\ out' = result
    /\ UNCHANGED <<sheet, cache, df, load_ok, do_refresh, fetched, error, leader, teams>>

NormalizeColumns ==
    /\ Step("read", _normalize_columns(out))
    /\ pc' = "renamed"

EnsureRequired ==
    /\ Step("renamed", _ensure_required_columns(out))
    /\ pc' = IF out'.exc = "" THEN "ensured" ELSE "raised"

ComputeTotals ==
    /\ Step("ensured", _compute_totals_and_rank(out))
    /\ pc' = IF out'.exc = "" THEN "ranked" ELSE "raised"

\* The Schema Normalizer applied to its own output.
Renormalize ==
    /\ Step("ensured", _ensure_required_columns(_normalize_columns(out)))
    /\ pc' = "renormalized"

NextLoad == NormalizeColumns \/ EnsureRequired \/ ComputeTotals \/ Renormalize

SpecLoad == InitLoad /\ [][NextLoad]_vars

---------------------------------------------------------------------------
(* The ranking engine and the statistics, on normalized tables *)

InitRank ==
    /\ sheet = Frame(<<>>, <<>>, 0)
    /\ PageIdle
    /\ \/ /\ pc = "ensured"
          /\ \E n \in 0..MaxRows : \E rows \in [1..n -> RankRows] :
                 out = NormalizedFrame(rows)
       \/ /\ pc = "raised"
          /\ out = Raised("URLError")
    /\ inp = out

\* The rest of the script once the load is over: the table or the fallback,
\* then the statistics.
Render ==
    /\ pc \in {"ranked", "raised"}
    /\ df' = Shown(out)
    /\ load_ok' = (out.exc = "")
    /\ error' = out.exc
    /\ leader' \in Leaders(Shown(out))
    /\ teams' = Shown(out).n
    /\ pc' = "rendered"
    /\ UNCHANGED <<sheet, cache, do_refresh, fetched, inp, out>>

NextRank == ComputeTotals \/ Render

SpecRank == InitRank /\ [][NextRank]_vars

---------------------------------------------------------------------------
(* Claims about the ranking engine and the statistics, under SpecRank *)

\* A ranked table has come out of _compute_totals_and_rank(inp).
Ranked == pc \in {"ranked", "rendered"} /\ out.exc = "" /\ inp.exc = ""

\* Row i of t without its total: the name, the four games, the bonus.
Scores(t, i) ==
    <<Strings(t, TEAM_NAME)[i], Numbers(t, GAME_1)[i], Numbers(t, GAME_2)[i],
      Numbers(t, GAME_3)[i], Numbers(t, GAME_4)[i], Numbers(t, COLUMN_6)[i]>>

\* The rows of t with their totals.
Records(t) == [i \in 1..t.n |-> <<Scores(t, i), Numbers(t, TOTAL_POINTS)[i]>>]

\* The rows of t with the total the claim gives each.
AllOrNothing(t) ==
    [i \in 1..t.n |->
        <<Scores(t, i),
          IF \A j \in 1..t.n : Numbers(t, TOTAL_POINTS)[j] = 0
          THEN Scores(t, i)[2] + Scores(t, i)[3] + Scores(t, i)[4]
                   + Scores(t, i)[5] + Scores(t, i)[6]
          ELSE Numbers(t, TOTAL_POINTS)[i]>>]

\* Two sequences hold the same elements as often (the sort permutes the rows).
SameRecords(a, b) ==
    /\ Len(a) = Len(b)
    /\ \A x \in Range(a) \cup Range(b) :
           Cardinality({i \in 1..Len(a) : a[i] = x})
               = Cardinality({i \in 1..Len(b) : b[i] = x})

\* C1: if every input total is 0, every record's output total is the sum of
\* its four games and its bonus; if some input total is not 0, every record
\* keeps its own input total, a 0 included.
C1_AllOrNothing == Ranked => SameRecords(Records(out), AllOrNothing(inp))

\* A supplied total of 80 beside a supplied total of 0 whose games sum to 40.
C1_Witness ==
    /\ pc = "ranked"
    /\ \E i, j \in 1..inp.n :
           /\ Numbers(inp, TOTAL_POINTS)[i] = 80
           /\ Numbers(inp, TOTAL_POINTS)[j] = 0
           /\ Numbers(inp, GAME_2)[j] = 20
    /\ \E i \in 1..out.n :
           Numbers(out, TOTAL_POINTS)[i] = 0 /\ Numbers(out, GAME_2)[i] = 20

\* C2: in a non-empty ranked table a record's rank is 1 plus the number of
\* distinct totals above its own, and the ranks used are exactly 1..k for k
\* distinct totals.
C2_DenseRank ==
    (Ranked /\ out.n > 0) =>
        LET totals == Numbers(out, TOTAL_POINTS)
            ranks == Numbers(out, RANK)
        IN  /\ \A i \in 1..out.n :
                   ranks[i] = 1 + Cardinality({v \in Range(totals) : v > totals[i]})
            /\ Range(ranks) = 1..Cardinality(Range(totals))

\* Two leaders tied and a third record behind them: ranks 1, 1, 2.
C2_Witness ==
    /\ pc = "ranked"
    /\ out.n = 3
    /\ Numbers(out, TOTAL_POINTS) = <<80, 80, 0>>
    /\ Numbers(out, RANK) = <<1, 1, 2>>

\* a <= b in case-sensitive lexical order, stated without recursion: equal, or
\* at the first place they differ a has ended or holds the lower code point.
LexLeq(a, b) ==
    \/ a = b
    \/ \E k \in 1..Len(b) :
           /\ k <= Len(a) + 1
           /\ \A m \in 1..(k - 1) : a[m] = b[m]
           /\ k = Len(a) + 1 \/ Ord(a[k]) < Ord(b[k])

\* C3: of two adjacent rows of the ranked table the earlier has the greater
\* or equal total, on equal totals the lesser or equal name, and the ranks
\* never decrease down the table.
C3_Ordering ==
    Ranked =>
        \A i \in 1..(out.n - 1) :
            /\ Numbers(out, TOTAL_POINTS)[i] >= Numbers(out, TOTAL_POINTS)[i + 1]
            /\ Numbers(out, TOTAL_POINTS)[i] = Numbers(out, TOTAL_POINTS)[i + 1]
                   => LexLeq(Strings(out, TEAM_NAME)[i], Strings(out, TEAM_NAME)[i + 1])
            /\ Numbers(out, RANK)[i] <= Numbers(out, RANK)[i + 1]

\* "alpha" came before "Bravo" in the input and both have 80: the capital
\* goes first.
C3_Witness ==
    /\ pc = "ranked"
    /\ inp.n = 2
    /\ Strings(inp, TEAM_NAME) = <<<<"a","l","p","h","a">>, <<"B","r","a","v","o">>>>
    /\ Numbers(inp, TOTAL_POINTS) = <<80, 80>>
    /\ Strings(out, TEAM_NAME) = <<<<"B","r","a","v","o">>, <<"a","l","p","h","a">>>>

\* The statistics of the table shown have been computed.
Rendered == pc = "rendered"

\* The largest total of a non-empty table.
TopTotal(t) == Max(Range(Numbers(t, TOTAL_POINTS)))

\* The sentinel cases and the empty table of C9.
LeaderSentinel ==
    /\ (df.n = 0 \/ \A i \in 1..df.n : Numbers(df, TOTAL_POINTS)[i] <= 0)
           => leader = TBD
    /\ teams = df.n
    /\ (load_ok /\ inp.n = 0) => (df.n = 0 /\ teams = 0)

\* C9 as claimed: the leading team is "TBD" when the table is empty or no
\* total is positive, and otherwise the name in the first row of the table.
C9_FirstRow ==
    Rendered =>
        /\ LeaderSentinel
        /\ (df.n > 0 /\ \E i \in 1..df.n : Numbers(df, TOTAL_POINTS)[i] > 0)
               => leader = Strings(df, TEAM_NAME)[1]

\* C9 as amended: otherwise the leading team is the name of a record with the
\* largest total, and the first row's when one record alone has that total.
C9_Leader ==
    Rendered =>
        /\ LeaderSentinel
        /\ (df.n > 0 /\ \E i \in 1..df.n : Numbers(df, TOTAL_POINTS)[i] > 0)
               => /\ \E i \in 1..df.n :
                         /\ Numbers(df, TOTAL_POINTS)[i] = TopTotal(df)
                         /\ leader = Strings(df, TEAM_NAME)[i]
                  /\ Cardinality({i \in 1..df.n :
                                     Numbers(df, TOTAL_POINTS)[i] = TopTotal(df)}) = 1
                         => leader = Strings(df, TEAM_NAME)[1]

\* Two leaders tied at 80, and the metric names the second of them.
C9_Witness ==
    /\ Rendered
    /\ load_ok
    /\ df.n = 3
    /\ Numbers(df, TOTAL_POINTS) = <<80, 80, -5>>
    /\ Strings(df, TEAM_NAME)[1] = <<"A","l","p","h","a">>
    /\ leader = <<"B","r","a","v","o">>

---------------------------------------------------------------------------
(* Claims about the Schema Normalizer and the projection, under SpecLoad *)

\* C6: the Schema Normalizer applied to a table it produced returns that
\* table: the same column names and the same cells.
C6_Idempotent == pc = "renormalized" => out = inp

\* The sheet's " team " column held 4, a blank and 1; once normalized it is
\* Team_Name holding "4.0", "nan" and "1.0", and stays so.
C6_Witness ==
    /\ pc = "renormalized"
    /\ sheet.n = 2
    /\ \E i \in 1..Len(sheet.hdr) :
           /\ sheet.hdr[i] = <<" ","t","e","a","m"," ">>
           /\ sheet.col[i] = <<Num(4), NaN>>
    /\ HasColumn(out, TEAM_NAME)
    /\ Column(out, TEAM_NAME) = <<Str(<<"4",".","0">>), Str(<<"n","a","n">>)>>

\* The sheet's headers after _normalize_columns.
Renamed == _normalize_columns(sheet).hdr

\* The header's trimmed, lower-cased form is the key of no alias.
NoAlias(h) == \A e \in mapping_candidates : e[1] # StrLower(StrStrip(h))

\* The canonical column c came with no header of the sheet.
Missing(c) == c \notin Range(Renamed)

\* The part of C7 that needs no amendment: eight columns in the fixed order,
\* headers of no alias kept by the normalizer and dropped from the output,
\* missing games and bonus filled with 0, a missing name with "0".
ProjectionAndFill ==
    /\ out.hdr = ORDERED_COLS
    /\ Len(out.col) = 8
    /\ \A i \in 1..Len(sheet.hdr) :
           NoAlias(sheet.hdr[i]) =>
               /\ Renamed[i] = sheet.hdr[i]
               /\ sheet.hdr[i] \notin Range(REQUIRED_COLUMNS)
                      => sheet.hdr[i] \notin Range(out.hdr)
    /\ \A c \in Range(GAME_COLUMNS) \cup {COLUMN_6} :
           Missing(c) => \A i \in 1..out.n : Column(out, c)[i] = Num(0)
    /\ Missing(TEAM_NAME) => \A i \in 1..out.n : Column(out, TEAM_NAME)[i] = Str(<<"0">>)

Collide(i, j) == i < j /\ Renamed[i] = Renamed[j]

\* C8 as claimed: when two headers map to one canonical column the load ends
\* without an error, the table handed to the ranking engine holding a single
\* column of that name.
C8_LastWins ==
    (pc \in {"ranked", "raised"} /\ \E i, j \in 1..Len(Renamed) : Collide(i, j)) =>
        /\ pc = "ranked"
        /\ \A i, j \in 1..Len(Renamed) :
               Collide(i, j) => Cardinality(Locs(inp, Renamed[j])) = 1

\* What the code does instead, whatever the two columns hold: both columns stay
\* under the one name and the load raises, in _ensure_required_columns for a
\* numeric column and in the sort for the name column.
C8_Raises ==
    (pc \notin {"read", "renamed"} /\ \E i, j \in 1..Len(Renamed) : Collide(i, j)) =>
        IF \E i, j \in 1..Len(Renamed) : Collide(i, j) /\ Renamed[j] # TEAM_NAME
        THEN pc = "raised" /\ out.exc = "TypeError"
        ELSE pc \in {"ensured", "renormalized"}
                 \/ (pc = "raised" /\ out.exc = "ValueError")

---------------------------------------------------------------------------
(* Claims about the page, its fallback and its cache, under Spec *)

\* The placeholder's content: Team_1..Team_8, every score 0.
IsPlaceholder(t) ==
    /\ t.n = 8
    /\ \A i \in 1..8 : Strings(t, TEAM_NAME)[i] = <<"T","e","a","m","_">> \o <<DIGITS[i + 1]>>
    /\ \A c \in Range(NUMERIC_COLUMNS) : \A i \in 1..8 : Numbers(t, c)[i] = 0

\* C4 as claimed: when the load raised, the table shown is the placeholder
\* and has the columns of a processed table, a rank for every record among
\* them, the failure being shown apart from the table.
C4_RankedFallback ==
    error # "" =>
        /\ ~load_ok
        /\ IsPlaceholder(df)
        /\ df.hdr = ORDERED_COLS
        /\ Len(Column(df, RANK)) = df.n

\* What the code does: the placeholder is shown as load_base_data built it,
\* seven columns and no rank.
C4_UnrankedFallback ==
    error # "" =>
        /\ ~load_ok
        /\ IsPlaceholder(df)
        /\ df.hdr = REQUIRED_COLUMNS
        /\ ~HasColumn(df, RANK)

\* A step of the model that is a run of the script.
PassStep == AutoPass \/ ManualPass

\* C5: a pass that is no manual refresh and finds an entry inside its
\* validity window performs no fetch and shows that entry, which stays; a
\* manual refresh clears the entry first, so it performs a fetch: when the
\* load returns, its table is shown and becomes the entry, and when it raises
\* there is no fetched table, the placeholder is shown and no entry is left.
C5_Cache ==
    [][PassStep =>
          /\ (~do_refresh' /\ CacheHit(cache))
                 => (~fetched' /\ load_ok' /\ df' = cache.value /\ cache' = cache)
          /\ do_refresh' => fetched'
          /\ (do_refresh' /\ load_ok')
                 => (df' = Process(sheet) /\ cache' = Entry(Process(sheet)))
          /\ (do_refresh' /\ ~load_ok')
                 => (df' = load_base_data /\ cache' = NoEntry)]_vars

\* The sheet was edited after it was fetched and a timer pass still shows the
\* cached table, without a fetch.
C5_Witness ==
    /\ ~do_refresh
    /\ ~fetched
    /\ load_ok
    /\ CacheHit(cache)
    /\ df = cache.value
    /\ Process(sheet).exc = ""
    /\ df # Process(sheet)

\* C10: a load that raised leaves no entry and shows the placeholder, so a
\* pass that finds no entry fetches again; and a pass whose load returned
\* shows the processed table of the sheet as fetched, not the placeholder.
C10_NeverMemoized ==
    [][PassStep =>
          /\ ~load_ok' => (fetched' /\ ~cache'.has /\ df' = load_base_data)
          /\ ~cache.has => fetched'
          /\ (fetched' /\ load_ok')
                 => (df' = Process(sheet) /\ df' # load_base_data
                        /\ cache' = Entry(df'))]_vars

\* The network was down for a sheet that loads: the placeholder is shown and
\* the cache is empty.
C10_Witness ==
    /\ fetched
    /\ ~load_ok
    /\ error = "URLError"
    /\ Process(sheet).exc = ""
    /\ df = load_base_data
    /\ cache = NoEntry

====
